---- MODULE Spec2Model ----
(***************************************************************************)
(* A model of the site build orchestrator and watch trigger                *)
(* (src/src/web/prepare.ts, lines 1-111), of the code / code-cell          *)
(* directives and their option parsing (src/src/web/prepare.ts, lines      *)
(* 113-354) and of the LaTeX character handlers (src/unnamed/part_000).    *)
(*                                                                         *)
(* JavaScript runs one callback at a time: every action below is one       *)
(* synchronous stretch of code, from the event that resumes it (a call, a  *)
(* promise settling, a file-system event) to the next await of an          *)
(* external operation.                                                     *)
(***************************************************************************)
EXTENDS Integers, Sequences, FiniteSets, TLC

VARIABLES
  siteConfig,     \* selectLocalSiteConfig(session.store.getState())
  runs,           \* the buildSite invocations started so far, in order
  cachesCreated,  \* number of DocumentCache objects constructed
  watching,       \* fs.watch handlers are installed
  watchCalled,    \* watchContent has been called
  delivered,      \* filenames of the change events delivered, in order
  call,           \* the directive / handler call under way (pure functions)
  ret,            \* its result
  tex             \* the state of the tex parser (ITexParser)

vars == <<siteConfig, runs, cachesCreated, watching, watchCalled, delivered,
          call, ret, tex>>

-----------------------------------------------------------------------------
(* Bounds *)

MaxProjects == 2    \* projects in the site configuration
MaxSlugPages == 1   \* pages with a slug per project, besides the index
MaxEvents == 2      \* file-system events delivered

-----------------------------------------------------------------------------
(* JavaScript values *)

Undefined == [kind |-> "undefined"]

-----------------------------------------------------------------------------
(* Site configuration and projects *)

SiteConfigs ==
  {Undefined} \cup {[kind |-> "config", projects |-> n] : n \in 0..MaxProjects}

\* siteConfig.projects, as the set of its indices
Projects(cfg) == IF cfg.kind = "config" THEN 1..cfg.projects ELSE {}

\* project.pages: one entry without a slug (a section title) and the pages
ProjectPages ==
  <<[hasSlug |-> FALSE]>> \o [i \in 1..MaxSlugPages |-> [hasSlug |-> TRUE]]

\* the pages handed to cache.processFile: 0 is the index page
\* ({file: project.file, slug: project.index}), i > 0 is project.pages[i]
PageTasks == {0} \cup {i \in 1..Len(ProjectPages) : ProjectPages[i].hasSlug}

-----------------------------------------------------------------------------
(* Promises *)

\* Promise.race over a set of promise states: settles with the first input
PromiseRace(states) ==
  IF "rejected" \in states THEN "rejected"
  ELSE IF "fulfilled" \in states THEN "fulfilled"
  ELSE "pending"

\* Promise.all over a set of promise states: rejects as soon as one input
\* rejects, fulfils when all inputs are fulfilled
PromiseAll(states) ==
  IF "rejected" \in states THEN "rejected"
  ELSE IF states \subseteq {"fulfilled"} THEN "fulfilled"
  ELSE "pending"

\* the promise of one processFile task
TaskPromise(t) ==
  CASE t.status = "done" -> "fulfilled"
    [] t.status = "failed" -> "rejected"
    [] OTHER -> "pending"

-----------------------------------------------------------------------------
(* buildProject *)

\* buildProject without the await of the citation load: the page tasks are
\* started together with it
buildProjectNoAwait ==
  [promise |-> "pending", citation |-> "loading", touched |-> 0,
   pages |-> [k \in PageTasks |-> [status |-> "running", processed |-> FALSE]]]

\* buildProject up to its first await: the citation load has been started,
\* no page task exists yet
buildProject ==
  [promise |-> "pending", citation |-> "loading", touched |-> 0,
   pages |-> [k \in PageTasks |-> [status |-> "notStarted", processed |-> FALSE]]]

\* pages.flat().filter(({ processed }) => processed).length
Touched(pages) == Cardinality({k \in DOMAIN pages : pages[k].processed})

\* the continuation of buildProject after `await Promise.all([...])`
ProjectSettle(proj) ==
  IF proj.promise # "pending" \/ proj.citation # "loaded" THEN proj
  ELSE LET all == PromiseAll({TaskPromise(proj.pages[k]) : k \in DOMAIN proj.pages})
       IN IF all = "fulfilled"
          THEN [proj EXCEPT !.promise = "fulfilled", !.touched = Touched(proj.pages)]
          ELSE [proj EXCEPT !.promise = all]

-----------------------------------------------------------------------------
(* buildSite *)

\* buildSite without its early return
NoProjectsNever(cfg) == FALSE

\* `if (!siteConfig?.projects.length) return cache;`
NoProjects(cfg) == cfg.kind # "config" \/ cfg.projects = 0

\* writeSiteManifest: one fs.writeFileSync of config.json
writeSiteManifest(run) == [run EXCEPT !.manifestWrites = @ + 1]

\* a barrier that gives way to the first project that settles
BarrierRace(run) ==
  PromiseRace({run.project[p].promise : p \in DOMAIN run.project})

\* the barrier of buildSite: the promise awaited before writeSiteManifest
Barrier(run) ==
  PromiseAll({run.project[p].promise : p \in DOMAIN run.project})

\* the continuation of buildSite after `await Promise.all(...)`: a rejection
\* is rethrown by the await and rejects buildSite, a fulfilment goes on to
\* writeSiteManifest and `return cache`
SiteSettle(run) ==
  IF run.status # "building" THEN run
  ELSE CASE Barrier(run) = "rejected" -> [run EXCEPT !.status = "rejected"]
         [] Barrier(run) = "fulfilled" ->
              [writeSiteManifest(run) EXCEPT !.status = "fulfilled"]
         [] OTHER -> run

\* buildSite from its call to its first await (or to its early return)
NewRun(origin, cfg, cacheId) ==
  IF NoProjects(cfg)
  THEN [origin |-> origin, cache |-> cacheId, status |-> "fulfilled",
        manifestWrites |-> 0, nProjects |-> Cardinality(Projects(cfg)),
        project |-> [p \in {} |-> buildProject]]
  ELSE SiteSettle(
       [origin |-> origin, cache |-> cacheId, status |-> "building",
        manifestWrites |-> 0, nProjects |-> Cardinality(Projects(cfg)),
        project |-> [p \in Projects(cfg) |-> buildProject]])

\* `const cache = new DocumentCache(session, opts)`: every invocation
\* constructs its own cache object
buildSite(origin) ==
  /\ cachesCreated' = cachesCreated + 1
  /\ runs' = Append(runs, NewRun(origin, siteConfig, cachesCreated + 1))

\* one project of one run, after a step of one of its tasks
StepProject(r, p, proj) ==
  runs' = [runs EXCEPT ![r] =
             SiteSettle([runs[r] EXCEPT !.project[p] = ProjectSettle(proj)])]

\* cache.getCitationRenderer(siteProject.path) resolves: buildProject goes on
\* and starts every processFile task
CitationLoaded(r, p) ==
  /\ runs[r].project[p].citation = "loading"
  /\ StepProject(r, p,
       [runs[r].project[p] EXCEPT
          !.citation = "loaded",
          !.pages = [k \in DOMAIN @ |-> [@[k] EXCEPT !.status = "running"]]])
  /\ UNCHANGED <<siteConfig, cachesCreated, watching, watchCalled, delivered,
                 call, ret, tex>>

\* cache.getCitationRenderer rejects: the await rethrows, buildProject rejects
CitationFailed(r, p) ==
  /\ runs[r].project[p].citation = "loading"
  /\ StepProject(r, p,
       [runs[r].project[p] EXCEPT !.citation = "failed", !.promise = "rejected"])
  /\ UNCHANGED <<siteConfig, cachesCreated, watching, watchCalled, delivered,
                 call, ret, tex>>

\* one cache.processFile task resolves, with processed true or false
PageProcessed(r, p, k, processed) ==
  /\ runs[r].project[p].pages[k].status = "running"
  /\ StepProject(r, p,
       [runs[r].project[p] EXCEPT
          !.pages[k] = [status |-> "done", processed |-> processed]])
  /\ UNCHANGED <<siteConfig, cachesCreated, watching, watchCalled, delivered,
                 call, ret, tex>>

\* one cache.processFile task rejects
PageFailed(r, p, k) ==
  /\ runs[r].project[p].pages[k].status = "running"
  /\ StepProject(r, p,
       [runs[r].project[p] EXCEPT !.pages[k].status = "failed"])
  /\ UNCHANGED <<siteConfig, cachesCreated, watching, watchCalled, delivered,
                 call, ret, tex>>

\* a caller other than the watcher calls buildSite (the first build)
DirectBuild ==
  /\ runs = <<>>
  /\ buildSite("direct")
  /\ UNCHANGED <<siteConfig, watching, watchCalled, delivered, call, ret, tex>>

-----------------------------------------------------------------------------
(* watchContent *)

BUILD == <<"_", "b", "u", "i", "l", "d">>

\* filenames reported by fs.watch, as sequences of characters
FileNames ==
  { BUILD,                                    \* _build
    BUILD \o <<"/", "c", ".", "j">>,          \* _build/c.j
    BUILD \o <<"i", "n", "g", ".", "m", "d">>,\* _building.md
    <<"a", ".", "m", "d">>,                   \* a.md
    <<"d", "/">> \o BUILD \o <<"/", "x">> }   \* d/_build/x

\* String.prototype.startsWith
StartsWith(s, prefix) ==
  /\ Len(s) >= Len(prefix)
  /\ SubSeq(s, 1, Len(prefix)) = prefix

\* `if (filename.startsWith('_build')) return;`
Ignored(f) == StartsWith(f, BUILD)

\* watchContent: installs the handlers unless there is no site configuration
watchContent ==
  /\ ~watchCalled
  /\ watchCalled' = TRUE
  /\ watching' = (siteConfig.kind = "config")
  /\ UNCHANGED <<siteConfig, runs, cachesCreated, delivered, call, ret, tex>>

\* the handler `processor()` on one change event
processor(f) ==
  /\ watching
  /\ Len(delivered) < MaxEvents
  /\ delivered' = Append(delivered, f)
  /\ IF Ignored(f)
     THEN UNCHANGED <<runs, cachesCreated>>
     ELSE buildSite("watch")
  /\ UNCHANGED <<siteConfig, watching, watchCalled, call, ret, tex>>

-----------------------------------------------------------------------------
(* Specifications of the build *)

Idle == [kind |-> "idle"]

InitBuild ==
  /\ siteConfig \in SiteConfigs
  /\ runs = <<>>
  /\ cachesCreated = 0
  /\ watching = FALSE
  /\ watchCalled = FALSE
  /\ delivered = <<>>
  /\ call = Idle
  /\ ret = Idle
  /\ tex = Idle

RunProjects == {rp \in (1..Len(runs)) \X (1..MaxProjects) :
                  rp[2] \in DOMAIN runs[rp[1]].project}

\* one buildSite invocation
NextBuild ==
  \/ DirectBuild
  \/ \E rp \in RunProjects : CitationLoaded(rp[1], rp[2])
  \/ \E rp \in RunProjects : CitationFailed(rp[1], rp[2])
  \/ \E rp \in RunProjects : \E k \in PageTasks : \E processed \in BOOLEAN :
       PageProcessed(rp[1], rp[2], k, processed)
  \/ \E rp \in RunProjects : \E k \in PageTasks : PageFailed(rp[1], rp[2], k)

SpecBuild == InitBuild /\ [][NextBuild]_vars

\* the watcher and the invocations it starts
NextWatch ==
  \/ watchContent
  \/ \E f \in FileNames : processor(f)
  \/ \E rp \in RunProjects : CitationLoaded(rp[1], rp[2])
  \/ \E rp \in RunProjects : CitationFailed(rp[1], rp[2])
  \/ \E rp \in RunProjects : \E k \in PageTasks : \E processed \in BOOLEAN :
       PageProcessed(rp[1], rp[2], k, processed)
  \/ \E rp \in RunProjects : \E k \in PageTasks : PageFailed(rp[1], rp[2], k)

SpecWatch == InitBuild /\ [][NextWatch]_vars

-----------------------------------------------------------------------------
(* Claims about the build *)

Started == 1..Len(runs)

\* C1: in every buildSite run the site manifest is written only after the
\* buildProject task of every configured project has settled: no project
\* build of the run is pending, and none of its tasks is still to start or
\* in flight, in any state in which the run has written the manifest.
C1_ManifestAfterBarrier ==
  \A r \in Started :
    runs[r].manifestWrites > 0 =>
      \A p \in DOMAIN runs[r].project :
        /\ runs[r].project[p].promise # "pending"
        /\ runs[r].project[p].citation # "loading"
        /\ \A k \in PageTasks :
             runs[r].project[p].pages[k].status \notin {"notStarted", "running"}

C1_Witness ==
  \E r \in Started : runs[r].manifestWrites > 0 /\ runs[r].nProjects >= 2

\* C2: the citation renderer of a project has been loaded before any
\* processFile task of that project (index page or slugged page) is started.
C2_CitationBeforePages ==
  \A r \in Started : \A p \in DOMAIN runs[r].project : \A k \in PageTasks :
    runs[r].project[p].pages[k].status # "notStarted" =>
      runs[r].project[p].citation = "loaded"

C2_Witness ==
  \E r \in Started : \E p \in DOMAIN runs[r].project :
    /\ runs[r].project[p].pages[0].status = "running"
    /\ \E k \in PageTasks \ {0} : runs[r].project[p].pages[k].status = "done"
    /\ \E q \in DOMAIN runs[r].project : runs[r].project[q].citation = "loading"

\* C3: a collaborator failure (citation load or page processing) in one
\* project is confined to that project: buildSite does not fail because of it.
C3_FailureConfined ==
  \A r \in Started :
    (\E p \in DOMAIN runs[r].project : \E q \in DOMAIN runs[r].project :
       /\ runs[r].project[p].promise = "rejected"
       /\ runs[r].project[q].promise # "rejected")
      => runs[r].status # "rejected"

\* C4: every buildSite invocation started by the watch trigger operates on
\* the same DocumentCache as the invocations before it.
C4_SameCache ==
  \A r1 \in Started : \A r2 \in Started :
    (r1 < r2 /\ runs[r2].origin = "watch") => runs[r2].cache = runs[r1].cache

\* the file is the build-output directory `_build` or lies in it
UnderBuildPath(f) ==
  /\ StartsWith(f, BUILD)
  /\ (Len(f) = Len(BUILD) \/ f[Len(BUILD) + 1] = "/")

\* C5: the number of buildSite invocations started by the watcher equals the
\* number of events whose filename is not under the build-output path.
C5_BuildPerOutsideEvent ==
  Cardinality({r \in Started : runs[r].origin = "watch"})
    = Cardinality({i \in 1..Len(delivered) : ~UnderBuildPath(delivered[i])})

\* What the handler does instead: one buildSite invocation per event whose
\* filename does not begin with the characters `_build`, each started by its
\* event whatever the state of the earlier invocations.
BuildPerEventNotIgnored ==
  Cardinality({r \in Started : runs[r].origin = "watch"})
    = Cardinality({i \in 1..Len(delivered) : ~StartsWith(delivered[i], BUILD)})

\* two invocations started by the watcher are in flight together
OverlappingBuilds ==
  \E r1 \in Started : \E r2 \in Started :
    r1 # r2 /\ runs[r1].status = "building" /\ runs[r2].status = "building"

\* C6 (as stated): a buildSite invocation that completes has written the site
\* manifest exactly once, whatever the number of projects.
C6_ManifestOncePerBuild ==
  \A r \in Started : runs[r].status = "fulfilled" => runs[r].manifestWrites = 1

\* C6 (amended): a buildSite invocation that completes has written the site
\* manifest exactly once if the site configuration has at least one project,
\* and not at all if there is no site configuration or it has no project; no
\* invocation writes it more than once.
C6_ManifestOnceIfProjects ==
  \A r \in Started :
    /\ runs[r].manifestWrites <= 1
    /\ runs[r].status = "fulfilled" =>
         runs[r].manifestWrites = (IF runs[r].nProjects = 0 THEN 0 ELSE 1)

C6_Witness ==
  \E r \in Started :
    /\ runs[r].status = "fulfilled"
    /\ runs[r].nProjects >= 2
    /\ runs[r].manifestWrites = 1

-----------------------------------------------------------------------------
(* JavaScript values of the directive options *)

\* a string, as the sequence of its characters
Str(chars) == [kind |-> "string", chars |-> chars]
Num(n) == [kind |-> "number", n |-> n]
Bool(b) == [kind |-> "boolean", b |-> b]
Arr(items) == [kind |-> "array", items |-> items]
\* a string, given as a whole
Text(t) == [kind |-> "text", text |-> t]
Null == [kind |-> "null"]
Obj == [kind |-> "object"]

\* ToBoolean: what `!x`, `if (x)` and `x ? a : b` test
Truthy(v) ==
  CASE v.kind \in {"undefined", "null"} -> FALSE
    [] v.kind = "boolean" -> v.b
    [] v.kind = "number" -> v.n # 0
    [] v.kind = "string" -> v.chars # <<>>
    [] v.kind = "text" -> v.text # ""
    [] OTHER -> TRUE

\* the sequences over S of length at most n
SeqsUpTo(S, n) == UNION {[1..m -> S] : m \in 0..n}

-----------------------------------------------------------------------------
(* parseTags *)

MaxTagLen == 3     \* characters of a tags string (without its brackets)
MaxTagItems == 2   \* elements of a tags list

\* the characters of the tags strings: a letter, a blank, a comma, the
\* brackets, and "q" for an empty quoted YAML scalar ('')
PlainChars == {"a", " ", ",", "q"}
TagChars == PlainChars \cup {"[", "]"}

IsSpace(c) == c = " "

\* String.prototype.trim
RECURSIVE TrimStart(_)
TrimStart(s) ==
  IF s # <<>> /\ IsSpace(Head(s)) THEN TrimStart(Tail(s)) ELSE s

RECURSIVE TrimEnd(_)
TrimEnd(s) ==
  IF s # <<>> /\ IsSpace(s[Len(s)]) THEN TrimEnd(SubSeq(s, 1, Len(s) - 1)) ELSE s

Trim(s) == TrimEnd(TrimStart(s))

\* String.prototype.split on a one-character separator class: the pieces
\* between the separators, empty pieces included
RECURSIVE Split(_, _)
Split(s, seps) ==
  IF s = <<>> THEN << <<>> >>
  ELSE LET rest == Split(Tail(s), seps)
       IN IF Head(s) \in seps
          THEN << <<>> >> \o rest
          ELSE << <<Head(s)>> \o Head(rest) >> \o Tail(rest)

NonEmpty(t) == t # <<>>

\* input.startsWith('[') && input.endsWith(']')
Bracketed(s) == s # <<>> /\ Head(s) = "[" /\ s[Len(s)] = "]"

Throw == [kind |-> "throw"]

\* one entry of a YAML flow sequence: '' is the empty string, a plain scalar
\* is its text, text after a quoted scalar is a syntax error
YamlScalar(item) ==
  IF item = <<"q">> THEN Str(<<>>)
  ELSE IF Head(item) = "q" THEN Throw
  ELSE Str(item)

\* yaml.load of a bracketed string without inner brackets: the entries
\* between the commas, blanks around them skipped; one trailing comma is
\* allowed, any other empty entry is rejected
YamlLoad(s) ==
  LET inner == SubSeq(s, 2, Len(s) - 1)
      pieces == Split(inner, {","})
      trimmed == [i \in 1..Len(pieces) |-> Trim(pieces[i])]
      entries == IF trimmed[Len(trimmed)] = <<>>
                 THEN SubSeq(trimmed, 1, Len(trimmed) - 1)
                 ELSE trimmed
      scalars == [i \in 1..Len(entries) |->
                    IF entries[i] = <<>> THEN Throw ELSE YamlScalar(entries[i])]
  IN IF \E i \in 1..Len(scalars) : scalars[i] = Throw
     THEN Throw
     ELSE Arr(scalars)

Diag(value, warnings, errors) ==
  [value |-> value, warnings |-> warnings, errors |-> errors]

\* tags.map((t) => t.trim()).filter((t) => !!t)
TrimAndFilter(items) ==
  LET trimmed == [i \in 1..Len(items) |-> Str(Trim(items[i].chars))]
  IN SelectSeq(trimmed, Truthy)

\* parseTags on a value that is not a bracketed string (lines 209, 222-243)
parseTagsValue(input) ==
  IF ~Truthy(input) THEN Diag(Undefined, 0, 0)
  ELSE IF input.kind = "string"
  THEN LET tags == SelectSeq([i \in 1..Len(Split(input.chars, {",", " "})) |->
                                Trim(Split(input.chars, {",", " "})[i])],
                             NonEmpty)
       IN IF Len(tags) > 0
          THEN Diag(Arr([i \in 1..Len(tags) |-> Str(tags[i])]), 0, 0)
          ELSE Diag(Undefined, 0, 0)
  ELSE IF input.kind # "array" THEN Diag(Undefined, 0, 0)
  ELSE IF \A i \in 1..Len(input.items) : input.items[i].kind = "string"
  THEN IF Len(input.items) > 0
       THEN Diag(Arr(TrimAndFilter(input.items)), 0, 0)
       ELSE Diag(Undefined, 0, 0)
  ELSE Diag(Undefined, 1, 0)

\* parseTags: a bracketed string is loaded as YAML and parsed again
parseTags(input) ==
  IF Truthy(input) /\ input.kind = "string" /\ Bracketed(input.chars)
  THEN IF YamlLoad(input.chars) = Throw
       THEN Diag(Undefined, 0, 1)
       ELSE parseTagsValue(YamlLoad(input.chars))
  ELSE parseTagsValue(input)

\* the block data built by codeCellDirective.run:
\* `if (tags) block.data.tags = tags;`
BlockData(tags) ==
  IF Truthy(tags)
  THEN [type |-> "notebook-code", tags |-> tags.items]
  ELSE [type |-> "notebook-code"]

\* codeCellDirective.run
codeCellRun(options) ==
  LET tags == parseTags(options.tags)
  IN [kind |-> "block", parsed |-> tags.value, warnings |-> tags.warnings,
      errors |-> tags.errors,
      node |-> [type |-> "block", children |-> <<"code", "output">>,
                data |-> BlockData(tags.value)]]

\* the values of the tags option
TagStrings ==
  SeqsUpTo(TagChars, 2)
    \cup SeqsUpTo(PlainChars, MaxTagLen)
    \cup {<<"[">> \o s \o <<"]">> : s \in SeqsUpTo(PlainChars, MaxTagLen)}

TagElements == {Str(s) : s \in SeqsUpTo({"a", " "}, 2)} \cup {Num(3), Null}

TagInputs ==
  {Undefined, Null, Num(0), Num(42), Bool(TRUE), Bool(FALSE), Obj}
    \cup {Str(s) : s \in TagStrings}
    \cup {Arr(items) : items \in SeqsUpTo(TagElements, MaxTagItems)}

InitPure ==
  /\ siteConfig = Undefined
  /\ runs = <<>>
  /\ cachesCreated = 0
  /\ watching = FALSE
  /\ watchCalled = FALSE
  /\ delivered = <<>>
  /\ ret = Idle

InitTags ==
  /\ InitPure
  /\ tex = Idle
  /\ call \in {[kind |-> "code-cell", options |-> [tags |-> v]] : v \in TagInputs}

RunCodeCell ==
  /\ call.kind = "code-cell"
  /\ ret = Idle
  /\ ret' = codeCellRun(call.options)
  /\ UNCHANGED <<siteConfig, runs, cachesCreated, watching, watchCalled,
                 delivered, call, tex>>

NextTags == RunCodeCell

SpecTags == InitTags /\ [][NextTags]_vars

\* a list of trimmed, non-empty strings with at least one element
NonEmptyTagList(v) ==
  /\ v.kind = "array"
  /\ Len(v.items) > 0
  /\ \A i \in 1..Len(v.items) :
       /\ v.items[i].kind = "string"
       /\ v.items[i].chars # <<>>
       /\ Trim(v.items[i].chars) = v.items[i].chars

\* C7: parseTags returns undefined or a non-empty list of trimmed non-empty
\* strings, and the block of the code-cell directive carries data.tags only
\* when the tag list is non-empty, never an empty tags field.
C7_TagsNonEmptyOrAbsent ==
  ret.kind = "block" =>
    /\ ret.parsed = Undefined \/ NonEmptyTagList(ret.parsed)
    /\ "tags" \in DOMAIN ret.node.data => Len(ret.node.data.tags) > 0

-----------------------------------------------------------------------------
(* getCodeBlockOptions and the code directive *)

MaxLineNo == 3   \* largest value of lineno-start and number-lines

\* `x != null`
Present(v) == v.kind \notin {"undefined", "null"}

\* the sentinel 'match'
Match == Str(<<"m", "a", "t", "c", "h">>)

\* the warning of getCodeBlockOptions:
\* 'Cannot use both "lineno-start" and "number-lines"'
OptionWarnings(options) ==
  IF Present(options.linenoStart) /\ Present(options.numberLines) THEN 1 ELSE 0

\* showLineNumbers: `true` or undefined
ShowLineNumbers(options) ==
  IF \/ Truthy(options.linenos)
     \/ Truthy(options.linenoStart)
     \/ Truthy(options.linenoMatch)
     \/ Truthy(options.numberLines)
  THEN Bool(TRUE)
  ELSE Undefined

\* startingLineNumber with the precedence reversed: lineno-start first
StartingLineNumberStartFirst(options) ==
  LET start == IF Present(options.linenoStart) /\ options.linenoStart.n > 1
               THEN options.linenoStart
               ELSE options.numberLines
  IN IF Truthy(options.linenoMatch) THEN Match
     ELSE IF ~Present(start) \/ start.n <= 1 THEN Undefined
     ELSE start

\* startingLineNumber
StartingLineNumber(options) ==
  LET start == IF Present(options.numberLines) /\ options.numberLines.n > 1
               THEN options.numberLines
               ELSE options.linenoStart
  IN IF Truthy(options.linenoMatch) THEN Match
     ELSE IF ~Present(start) \/ start.n <= 1 THEN Undefined
     ELSE start

getCodeBlockOptions(options) ==
  [showLineNumbers |-> ShowLineNumbers(options),
   startingLineNumber |-> StartingLineNumber(options),
   warnings |-> OptionWarnings(options)]

\* toLowerCase on the characters of the labels
Lower(c) == IF c = "F" THEN "f" ELSE c

\* normalizeLabel: undefined for no label, else the label and its identifier
normalizeLabel(label) ==
  IF ~Truthy(label) THEN Undefined
  ELSE [kind |-> "label", label |-> label,
        identifier |-> Str(Trim([i \in 1..Len(label.chars) |-> Lower(label.chars[i])]))]

\* `normalizeLabel(...) || {}`, destructured
LabelOf(options) ==
  IF Truthy(normalizeLabel(options.label))
  THEN normalizeLabel(options.label).label ELSE Undefined

IdentifierOf(options) ==
  IF Truthy(normalizeLabel(options.label))
  THEN normalizeLabel(options.label).identifier ELSE Undefined

\* a test that also takes an empty caption for an absent one
CaptionAbsentOrEmpty(options) ==
  ~Present(options.caption) \/ options.caption.items = <<>>

\* `!data.options?.caption`
CaptionAbsent(options) == ~Truthy(options.caption)

\* the Code node before label and identifier are set
CodeNode(options) ==
  [type |-> "code",
   showLineNumbers |-> getCodeBlockOptions(options).showLineNumbers,
   startingLineNumber |-> getCodeBlockOptions(options).startingLineNumber,
   label |-> Undefined, identifier |-> Undefined]

\* codeDirective.run: the list of nodes returned
codeRun(options) ==
  IF CaptionAbsent(options)
  THEN << [CodeNode(options) EXCEPT !.label = LabelOf(options),
                                    !.identifier = IdentifierOf(options)] >>
  ELSE << [type |-> "container", kind |-> "code",
           label |-> LabelOf(options), identifier |-> IdentifierOf(options),
           children |-> << CodeNode(options),
                           [type |-> "caption",
                            children |-> << [type |-> "paragraph",
                                             children |-> options.caption.items] >>] >>] >>

\* the option values
LineNumbers == {Undefined} \cup {Num(n) : n \in (0 - 1)..MaxLineNo}
Flags == {Undefined, Bool(TRUE)}
Captions == {Undefined, Arr(<<>>), Arr(<<"text">>)}
Labels == {Undefined, Str(<<>>), Str(<<"F", "a">>), Str(<<"a">>)}

CodeOptions ==
  [linenoStart : LineNumbers, numberLines : LineNumbers, linenoMatch : Flags,
   linenos : Flags, caption : Captions, label : Labels]

InitCode ==
  /\ InitPure
  /\ tex = Idle
  /\ call \in {[kind |-> "code", options |-> o] : o \in CodeOptions}

RunCode ==
  /\ call.kind = "code"
  /\ ret = Idle
  /\ ret' = [kind |-> "code", opts |-> getCodeBlockOptions(call.options),
             nodes |-> codeRun(call.options)]
  /\ UNCHANGED <<siteConfig, runs, cachesCreated, watching, watchCalled,
                 delivered, call, tex>>

NextCode == RunCode

SpecCode == InitCode /\ [][NextCode]_vars

\* C8: startingLineNumber is 'match' if lineno-match is set; otherwise
\* number-lines if it is > 1; otherwise lineno-start if it is > 1; otherwise
\* undefined. Exactly one warning is emitted when both lineno-start and
\* number-lines are present, and none otherwise.
C8_StartingLineNumber ==
  ret.kind = "code" =>
    LET o == call.options
        nl == o.numberLines
        ls == o.linenoStart
    IN /\ ret.opts.startingLineNumber =
            (CASE o.linenoMatch # Undefined -> Match
               [] o.linenoMatch = Undefined /\ nl # Undefined /\ nl.n > 1 -> nl
               [] o.linenoMatch = Undefined /\ ~(nl # Undefined /\ nl.n > 1)
                    /\ ls # Undefined /\ ls.n > 1 -> ls
               [] OTHER -> Undefined)
       /\ ret.opts.warnings =
            (IF ls # Undefined /\ nl # Undefined THEN 1 ELSE 0)

C8_Witness ==
  /\ ret.kind = "code"
  /\ call.options.linenoStart = Num(3)
  /\ call.options.numberLines = Num(2)
  /\ call.options.linenoMatch = Undefined
  /\ ret.opts.startingLineNumber = Num(2)
  /\ ret.opts.warnings = 1

\* a node carries the label and identifier of the directive
Carries(node, options) ==
  /\ node.label = options.label
  /\ node.identifier # Undefined

CarriesNone(node) == node.label = Undefined /\ node.identifier = Undefined

\* C9: the result is a single Container, with the Code node and a Caption as
\* children, if and only if a caption option was supplied, and otherwise a
\* single bare Code node; a label given to the directive is carried by the
\* Container when wrapped (the inner Code node then has neither label nor
\* identifier) and by the Code node when bare.
C9_ContainerIffCaption ==
  ret.kind = "code" =>
    LET o == call.options
        node == ret.nodes[1]
        labelled == o.label # Undefined /\ o.label.chars # <<>>
    IN /\ Len(ret.nodes) = 1
       /\ (node.type = "container") <=> (o.caption # Undefined)
       /\ node.type \in {"container", "code"}
       /\ IF labelled THEN Carries(node, o) ELSE CarriesNone(node)
       /\ node.type = "container" =>
            /\ Len(node.children) = 2
            /\ node.children[1].type = "code"
            /\ node.children[2].type = "caption"
            /\ CarriesNone(node.children[1])

C9_Witness ==
  /\ ret.kind = "code"
  /\ call.options.caption = Arr(<<>>)
  /\ call.options.label = Str(<<"F", "a">>)
  /\ ret.nodes[1].type = "container"
  /\ ret.nodes[1].identifier = Str(<<"f", "a">>)

-----------------------------------------------------------------------------
(* The character handlers of the tex parser *)

MaxMacros == 2   \* macros handled in one parse

\* a character outside ASCII is written as its code point, U+XXXX
accents ==
  "`" :> ("o" :> "U+00F2" @@ "O" :> "U+00D2") @@
  "'" :> ("o" :> "U+00F3" @@ "O" :> "U+00D3") @@
  "^" :> ("" :> "^" @@ "o" :> "U+00F4" @@ "i" :> "U+00EE" @@ "y" :> "U+0177" @@
          "O" :> "U+00D4" @@ "I" :> "U+00CE" @@ "Y" :> "U+0176") @@
  "\"" :> ("o" :> "U+00F6" @@ "u" :> "U+00FC" @@ "i" :> "U+00EF" @@
           "O" :> "U+00D6" @@ "U" :> "U+00DC" @@ "I" :> "U+00CF") @@
  "H" :> ("o" :> "U+0151" @@ "O" :> "U+0150") @@
  "~" :> ("" :> "~" @@ "o" :> "U+00F5" @@ "n" :> "U+00F1" @@ "O" :> "U+00D5" @@ "N" :> "U+00D1" @@
          "u" :> "U+0169" @@ "U" :> "U+0168" @@ "e" :> "U+1EBD" @@ "E" :> "U+1EBC" @@
          "i" :> "U+0129" @@ "I" :> "U+0128") @@
  "c" :> ("c" :> "U+00E7" @@ "C" :> "U+00C7") @@
  "k" :> ("a" :> "U+0105" @@ "A" :> "U+0104") @@
  "l" :> ("" :> "U+0142") @@
  "=" :> ("o" :> "U+014D" @@ "O" :> "U+014C") @@
  "." :> ("o" :> "U+022F" @@ "O" :> "U+022E") @@
  "d" :> ("u" :> "U+1EE5" @@ "U" :> "U+1EE4") @@
  "r" :> ("a" :> "U+00E5" @@ "A" :> "U+00C5") @@
  "u" :> ("o" :> "U+014F" @@ "O" :> "U+014E") @@
  "v" :> ("s" :> "U+0161" @@ "S" :> "U+0160") @@
  "t" :> ("oo" :> "oU+0361o" @@ "OO" :> "OU+0361O") @@
  "o" :> ("" :> "U+00F8") @@
  "i" :> ("" :> "U+0131")

symbols ==
  "%" :> "%" @@ "$" :> "$" @@ "&" :> "&" @@ "{" :> "{" @@ "}" :> "}" @@
  "_" :> "_" @@ "P" :> "U+00B6" @@ "dag" :> "U+2020" @@ "ddag" :> "U+2021" @@
  "textbar" :> "|" @@ "textgreater" :> ">" @@ "textless" :> "<" @@
  "textendash" :> "U+2013" @@ "textemdash" :> "U+2014" @@ "texttrademark" :> "U+2122" @@
  "textregistered" :> "U+00AE" @@ "copyright" :> "U+00A9" @@ "textexclamdown" :> "U+00A1" @@
  "textquestiondown" :> "U+00BF" @@ "pounds" :> "U+00A3" @@ "euro" :> "U+20AC" @@
  "#" :> "#" @@ "S" :> "U+00A7" @@ "textbackslash" :> "\\" @@
  "textcelsius" :> "U+2103" @@ "degreeCelsius" :> "U+2103" @@ "celsius" :> "U+2103" @@
  "aa" :> "U+00E5" @@ "AA" :> "U+00C5" @@ "dots" :> "U+2026" @@ "ldots" :> "U+2026" @@
  "textellipsis" :> "U+2026" @@ "textdegree" :> "U+00BA" @@ "textasciitilde" :> "~" @@
  "textvisiblespace" :> " "

\* property names every object literal inherits from Object.prototype
ObjectPrototypeKeys ==
  {"constructor", "toString", "valueOf", "hasOwnProperty", "__proto__"}

\* `translate[value]` on an object literal: an own property, else a property
\* inherited from Object.prototype, else undefined
Lookup(translate, value) ==
  IF value \in DOMAIN translate THEN Text(translate[value])
  ELSE IF value \in ObjectPrototypeKeys
  THEN [kind |-> "object", inherited |-> value]
  ELSE Undefined

\* the calls a handler makes on the parser state, in order
OpenCall == [op |-> "openParagraph"]
TextCall(value) == [op |-> "text", value |-> value]
WarnCall(value) == [op |-> "warn", message |-> <<"Unknown character ", value>>]

\* createText: the calls made for the argument text `value`
createText(translate, value) ==
  IF Truthy(Lookup(translate, value))
  THEN <<OpenCall, TextCall(Lookup(translate, value))>>
  ELSE <<OpenCall, WarnCall(value), TextCall(Lookup(translate, value))>>

\* addText: the calls made for the text of a symbol
addText(value) ==
  IF ~Truthy(value) THEN <<>> ELSE <<OpenCall, TextCall(value)>>

\* the effect of one call on the parser state
ApplyCall(state, c) ==
  CASE c.op = "openParagraph" ->
         [state EXCEPT !.paragraphOpen = TRUE,
                       !.paragraphs = IF state.paragraphOpen THEN @ ELSE @ + 1]
    [] c.op = "text" -> [state EXCEPT !.texts = @ + 1]
    [] c.op = "warn" -> [state EXCEPT !.warnings = @ + 1]

RECURSIVE ApplyCalls(_, _)
ApplyCalls(state, calls) ==
  IF calls = <<>> THEN state
  ELSE ApplyCalls(ApplyCall(state, Head(calls)), Tail(calls))

\* the argument texts: every key of the accent tables, a character in none
\* of them, and names inherited from Object.prototype
ArgTexts ==
  UNION {DOMAIN accents[m] : m \in DOMAIN accents}
    \cup {"x"} \cup ObjectPrototypeKeys

InitTex ==
  /\ InitPure
  /\ call = Idle
  /\ tex = [paragraphOpen |-> FALSE, paragraphs |-> 0, texts |-> 0,
            warnings |-> 0, handled |-> 0]

\* the handler macro_<macro> of an accent macro, on a node with the argument
\* text `value`
AccentHandler(macro, value) ==
  /\ tex.handled < MaxMacros
  /\ call' = [kind |-> "accent", macro |-> macro, value |-> value]
  /\ LET calls == createText(accents[macro], value)
         after == ApplyCalls(tex, calls)
     IN /\ tex' = [after EXCEPT !.handled = @ + 1]
        /\ ret' = [kind |-> "accent", wasOpen |-> tex.paragraphOpen,
                   calls |-> calls, state |-> after]
  /\ UNCHANGED <<siteConfig, runs, cachesCreated, watching, watchCalled, delivered>>

\* the handler macro_<macro> of a symbol macro
SymbolHandler(macro) ==
  /\ tex.handled < MaxMacros
  /\ call' = [kind |-> "symbol", macro |-> macro]
  /\ LET calls == addText(Text(symbols[macro]))
         after == ApplyCalls(tex, calls)
     IN /\ tex' = [after EXCEPT !.handled = @ + 1]
        /\ ret' = [kind |-> "symbol", wasOpen |-> tex.paragraphOpen,
                   calls |-> calls, state |-> after]
  /\ UNCHANGED <<siteConfig, runs, cachesCreated, watching, watchCalled, delivered>>

\* the parser closes the open paragraph between two macros
CloseParagraph ==
  /\ tex.paragraphOpen
  /\ tex' = [tex EXCEPT !.paragraphOpen = FALSE]
  /\ UNCHANGED <<siteConfig, runs, cachesCreated, watching, watchCalled, delivered, call, ret>>

NextTex ==
  \/ \E macro \in DOMAIN accents : \E value \in ArgTexts :
       AccentHandler(macro, value)
  \/ \E macro \in DOMAIN symbols : SymbolHandler(macro)
  \/ CloseParagraph

SpecTex == InitTex /\ [][NextTex]_vars

\* C10: for every accent macro and argument text the handler first ensures a
\* paragraph is open; when the argument is in the macro's sub-table it emits
\* exactly the composed character and no warning; when it is not, it emits
\* exactly one warning naming the unresolved character and then a text
\* emission of the undefined composed value.
C10_AccentHitOrWarn ==
  ret.kind = "accent" =>
    /\ ret.calls[1] = OpenCall
    /\ ret.state.paragraphOpen
    /\ ret.state.paragraphs = tex.paragraphs
    /\ IF call.value \in DOMAIN accents[call.macro]
       THEN ret.calls =
              <<OpenCall, TextCall(Text(accents[call.macro][call.value]))>>
       ELSE ret.calls =
              <<OpenCall, WarnCall(call.value), TextCall(Undefined)>>

====
